---- MODULE Spec2Model ----
(***************************************************************************)
(* A model of exodia: validators, fields (validator chains and the fluent  *)
(* builder), the nested-schema validator and Base construction.            *)
(*                                                                         *)
(* Python values are records tagged by their type name in field t.  A      *)
(* call has one of three outcomes: it returns, it raises ExodiaException,  *)
(* or it raises another exception (TypeError, AttributeError, KeyError,    *)
(* ValueError, ZeroDivisionError), which no handler of the library         *)
(* catches.                                                                *)
(***************************************************************************)
EXTENDS Integers, Sequences, FiniteSets, TLC

\* Bounds of the exploration: definition calls made on one field, and the
\* named values given to one construction
MaxCalls == 3
MaxKwargs == 3

------------------------------------------------------------------------------
\* Python values

None == [t |-> "NoneType"]

PyInt(n) == [t |-> "int", n |-> n]

PyStr(s) == [t |-> "str", s |-> s]

PyList(items) == [t |-> "list", items |-> items]

PyDate(y, m, d) == [t |-> "date", y |-> y, m |-> m, d |-> d]

PyDateTime(y, m, d, hh, mi) ==
    [t |-> "datetime", y |-> y, m |-> m, d |-> d, hh |-> hh, mi |-> mi]

\* a dict: d is a function from the keys present to their values
Dict(d) == [t |-> "dict", d |-> d]

EmptyMap == [k \in {} |-> None]

\* string literals, as sequences of characters
S_empty == << >>
S_A == <<"A">>
S_x == <<"x">>
S_BIG == <<"B", "I", "G">>
S_SMALL == <<"S", "M", "A", "L", "L">>
S_MEDIUM == <<"M", "E", "D", "I", "U", "M">>
S_1970 == <<"1", "9", "7", "0", "-", "0", "1", "-", "0", "1">>
S_1999 == <<"1", "9", "9", "9", "-", "1", "2", "-", "3", "1">>
S_feb30 == <<"1", "9", "7", "0", "-", "0", "2", "-", "3", "0">>
S_1970T == <<"1", "9", "7", "0", "-", "0", "1", "-", "0", "1",
             "T", "1", "0", ":", "3", "0">>

\* isinstance(value, t) for the classes the library names
IsInstance(value, tname) ==
    \/ value.t = tname
    \/ tname = "date" /\ value.t = "datetime"
    \/ tname = "Mapping" /\ value.t = "dict"

\* Python truthiness of a value (if data / if length)
Truthy(value) ==
    CASE value.t = "NoneType" -> FALSE
      [] value.t = "int" -> value.n # 0
      [] value.t = "str" -> Len(value.s) > 0
      [] value.t = "list" -> Len(value.items) > 0
      [] value.t = "dict" -> DOMAIN value.d # {}
      [] OTHER -> TRUE

\* len(value): the length, or -1 for the TypeError of an unsized value
PyLen(value) ==
    CASE value.t = "str" -> Len(value.s)
      [] value.t = "list" -> Len(value.items)
      [] value.t = "dict" -> Cardinality(DOMAIN value.d)
      [] OTHER -> -1

\* value == other
PyEq(a, b) == a.t = b.t /\ a = b

\* the ordinal of a date or datetime, for the rich comparisons
Ordinal(v) ==
    IF v.t = "date" THEN ((v.y * 12 + v.m) * 31 + v.d)
    ELSE (((v.y * 12 + v.m) * 31 + v.d) * 24 + v.hh) * 60 + v.mi

\* a < b: "T", "F", or "TypeError" for operands Python cannot order
PyLess(a, b) ==
    CASE a.t = "int" /\ b.t = "int" -> IF a.n < b.n THEN "T" ELSE "F"
      [] a.t = "date" /\ b.t = "date" ->
            IF Ordinal(a) < Ordinal(b) THEN "T" ELSE "F"
      [] a.t = "datetime" /\ b.t = "datetime" ->
            IF Ordinal(a) < Ordinal(b) THEN "T" ELSE "F"
      [] OTHER -> "TypeError"

\* datetime.date.fromisoformat / datetime.datetime.fromisoformat
Digits == {"0", "1", "2", "3", "4", "5", "6", "7", "8", "9"}

DigitVal(c) ==
    CASE c = "0" -> 0 [] c = "1" -> 1 [] c = "2" -> 2 [] c = "3" -> 3
      [] c = "4" -> 4 [] c = "5" -> 5 [] c = "6" -> 6 [] c = "7" -> 7
      [] c = "8" -> 8 [] c = "9" -> 9

Num2(s, i) == DigitVal(s[i]) * 10 + DigitVal(s[i + 1])

Num4(s, i) == Num2(s, i) * 100 + Num2(s, i + 2)

DaysInMonth(y, m) ==
    CASE m \in {4, 6, 9, 11} -> 30
      [] m = 2 -> IF (y % 4 = 0 /\ y % 100 # 0) \/ y % 400 = 0 THEN 29 ELSE 28
      [] OTHER -> 31

IsIsoDate(s) ==
    /\ Len(s) >= 10
    /\ \A i \in {1, 2, 3, 4, 6, 7, 9, 10} : s[i] \in Digits
    /\ s[5] = "-" /\ s[8] = "-"
    /\ Num4(s, 1) >= 1
    /\ Num2(s, 6) \in 1..12
    /\ Num2(s, 9) \in 1..DaysInMonth(Num4(s, 1), Num2(s, 6))

IsIsoTime(s) ==
    /\ Len(s) = 16
    /\ \A i \in {12, 13, 15, 16} : s[i] \in Digits
    /\ s[14] = ":"
    /\ Num2(s, 12) \in 0..23
    /\ Num2(s, 15) \in 0..59

\* a call's outcome is [o |-> "ok", ret |-> value] or [o |-> "crash", exc |-> name]
Ok(v) == [o |-> "ok", ret |-> v]

Crash(e) == [o |-> "crash", exc |-> e]

date_fromisoformat(v) ==
    IF v.t # "str" THEN Crash("TypeError")
    ELSE IF Len(v.s) = 10 /\ IsIsoDate(v.s)
         THEN Ok(PyDate(Num4(v.s, 1), Num2(v.s, 6), Num2(v.s, 9)))
         ELSE Crash("ValueError")

datetime_fromisoformat(v) ==
    IF v.t # "str" THEN Crash("TypeError")
    ELSE IF Len(v.s) = 10 /\ IsIsoDate(v.s)
         THEN Ok(PyDateTime(Num4(v.s, 1), Num2(v.s, 6), Num2(v.s, 9), 0, 0))
         ELSE IF IsIsoDate(v.s) /\ IsIsoTime(v.s)
              THEN Ok(PyDateTime(Num4(v.s, 1), Num2(v.s, 6), Num2(v.s, 9),
                                 Num2(v.s, 12), Num2(v.s, 15)))
              ELSE Crash("ValueError")

------------------------------------------------------------------------------
\* validators.py: the validator objects

NoValidator == [k |-> "None"]

\* Type.__init__: None in ts stands for NoneType
Type(ts) ==
    [k |-> "Type",
     ts |-> [i \in 1..Len(ts) |-> IF ts[i] = "None" THEN "NoneType" ELSE ts[i]]]

Type_merge(self, v) == Type(self.ts \o v.ts)

Required == [k |-> "Required"]

Optional == [k |-> "Optional"]

Length(length) == [k |-> "Length", length |-> length]

NotEmpty == [k |-> "NotEmpty"]

Between(min, max) == [k |-> "Between", min |-> min, max |-> max]

MultipleOf(n) == [k |-> "MultipleOf", n |-> n]

Enum(options) == [k |-> "Enum", options |-> options]

MinLength(length) == [k |-> "MinLength", length |-> length]

MaxLength(length) == [k |-> "MaxLength", length |-> length]

LessThan(v) == [k |-> "LessThan", v |-> v]

Equal(v) == [k |-> "Equal", v |-> v]

GreaterThan(v) == [k |-> "GreaterThan", v |-> v]

ExodiaValidator(schema) == [k |-> "Exodia", schema |-> schema]

Function(f, message) == [k |-> "Function", f |-> f, message |-> message]

Stack(validators) == [k |-> "Stack", validators |-> validators]

Ref(field, byName, expr) ==
    [k |-> "Ref", field |-> field, byName |-> byName, expr |-> expr]

\* Validator.__eq__: isinstance(v, self.__class__); "T" or "F"
Validator_eq(self, v) == IF v.k = self.k THEN "T" ELSE "F"

\* Length.__eq__: object.__eq__ gives NotImplemented, which is truthy, so the
\* result is v.length == self.length, and AttributeError when v has no length
Length_eq(self, v) ==
    IF "length" \in DOMAIN v
    THEN (IF v.length = self.length THEN "T" ELSE "F")
    ELSE "AttributeError"

MultipleOf_eq(self, v) ==
    IF v.k = self.k /\ self.n = v.n THEN "T" ELSE "F"

\* the expression validator == v of _add_validator and _pop_validator
ValidatorEquals(validator, v) ==
    CASE validator.k = "Length" -> Length_eq(validator, v)
      [] validator.k = "MultipleOf" -> MultipleOf_eq(validator, v)
      [] OTHER -> Validator_eq(validator, v)

\* the names get_callable_params finds: the parameters of the constructor
get_callable_params(k) ==
    CASE k \in {"Length", "MinLength", "MaxLength"} -> {"length"}
      [] k = "Between" -> {"min", "max"}
      [] k = "Type" -> {"ts"}
      [] k = "MultipleOf" -> {"n"}
      [] k = "Enum" -> {"options"}
      [] k \in {"LessThan", "Equal", "GreaterThan"} -> {"v"}
      [] k = "Exodia" -> {"schema"}
      [] k = "Function" -> {"f", "message"}
      [] k = "Stack" -> {"validators"}
      [] k = "Ref" -> {"field", "expr", "message"}
      [] OTHER -> {}

\* Validator.get_format_params / Type.get_format_params: the keys offered
get_format_params(k) ==
    get_callable_params(k) \cup {"class_name"}
        \cup (IF k = "Type" THEN {"actual_type", "expected_types"} ELSE {})

\* the placeholders of field_message (named) and generic_message
TemplateKeys(k, named) ==
    CASE k = "Required" -> IF named THEN {"field_name"} ELSE {}
      [] k = "Length" -> IF named THEN {"field_name", "length"} ELSE {"length"}
      [] k = "NotEmpty" -> IF named THEN {"field_name"} ELSE {}
      [] k = "Between" ->
            IF named THEN {"field_name", "min", "max"} ELSE {"value", "min", "max"}
      [] k = "Type" ->
            IF named THEN {"field_name", "value", "actual_type", "expected_types"}
            ELSE {"value", "actual_type", "expected_types"}
      [] k = "MultipleOf" ->
            IF named THEN {"field_name", "value", "n"} ELSE {"value", "n"}
      [] k = "Enum" ->
            IF named THEN {"value", "field_name", "options"} ELSE {"value", "options"}
      [] k = "MinLength" ->
            IF named THEN {"class_name", "field_name", "value", "length"}
            ELSE {"value", "length"}
      [] k = "MaxLength" ->
            IF named THEN {"class_name", "field_name", "value", "l"}
            ELSE {"value", "l"}
      [] k \in {"LessThan", "Equal", "GreaterThan"} ->
            IF named THEN {"class_name", "field_name", "value", "v"}
            ELSE {"value", "v"}
      [] k \in {"Function", "Ref"} -> {}
      [] OTHER -> {"class_name"}

\* the field name None is "": both are falsy in get_message
NoName == ""

NameStr(field_name) == IF field_name = NoName THEN "None" ELSE field_name

\* ExodiaException(message) raised by one validator
Leaf(msg, field_name) == [e |-> "leaf", msg |-> msg, field_name |-> field_name]

\* ExodiaException(errors)
Aggregate(errors) == [e |-> "list", errors |-> errors]

Pass == [o |-> "pass"]

Raise(err) == [o |-> "raise", err |-> err]

\* Validator.fail: message.format(field_name=, value=, **kw)
fail(self, field_name) ==
    IF TemplateKeys(self.k, field_name # NoName)
         \subseteq ({"field_name", "value", "instance"} \cup get_format_params(self.k))
    THEN Raise(Leaf(self.k, field_name))
    ELSE Crash("KeyError")

\* no owning instance
NoInstance == [names |-> {}, d |-> EmptyMap, none |-> TRUE]

\* an instance of a class that declares the fields names, with __dict__ d
Instance(names, d) == [names |-> names, d |-> d, none |-> FALSE]

\* the callables given to function() and ref()
ApplyFunction(f, value) ==
    CASE f = "len_ge_2" ->
            IF PyLen(value) < 0 THEN "TypeError"
            ELSE IF PyLen(value) >= 2 THEN "T" ELSE "F"
      [] OTHER -> "T"

ApplyExpr(expr, value, other) ==
    CASE expr = "other_gt_this" -> PyLess(value, other)
      [] expr = "this_gt_other" -> PyLess(other, value)
      [] OTHER -> "T"

\* hasattr(instance, name): a declared Field answers through Field.__get__,
\* which raises KeyError when nothing is stored
HasAttr(instance, name) ==
    IF name \in instance.names
    THEN (IF name \in DOMAIN instance.d THEN "T" ELSE "KeyError")
    ELSE (IF name \in DOMAIN instance.d THEN "T" ELSE "F")

\* Ref.validate giving expr its arguments in the other order
Ref_validate_swapped(self, value, instance) ==
    IF instance.none THEN "no_instance"
    ELSE IF HasAttr(instance, self.field) = "KeyError" THEN "KeyError"
    ELSE IF HasAttr(instance, self.field) = "F" THEN "does_not_exist"
    ELSE ApplyExpr(self.expr, instance.d[self.field], value)

Ref_validate(self, value, instance) ==
    IF instance.none THEN "no_instance"
    ELSE IF HasAttr(instance, self.field) = "KeyError" THEN "KeyError"
    ELSE IF HasAttr(instance, self.field) = "F" THEN "does_not_exist"
    ELSE ApplyExpr(self.expr, value, instance.d[self.field])

\* validate() of the validators that hold no other validator:
\* "T", "F", or the name of the exception raised
SimpleValidate(self, value, instance) ==
    CASE self.k = "Required" -> IF value.t # "NoneType" THEN "T" ELSE "F"
      [] self.k = "Optional" -> "T"
      [] self.k = "Length" ->
            IF PyLen(value) < 0 THEN "TypeError"
            ELSE IF PyLen(value) = self.length THEN "T" ELSE "F"
      [] self.k = "NotEmpty" ->
            IF PyLen(value) < 0 THEN "TypeError"
            ELSE IF PyLen(value) = 0 THEN "T" ELSE "F"
      [] self.k = "Between" ->
            IF value.t # "int" THEN "TypeError"
            ELSE IF self.min <= value.n /\ value.n <= self.max THEN "T" ELSE "F"
      [] self.k = "Type" ->
            IF \E i \in 1..Len(self.ts) : IsInstance(value, self.ts[i])
            THEN "T" ELSE "F"
      [] self.k = "MultipleOf" ->
            IF value.t # "int" THEN "TypeError"
            ELSE IF self.n = 0 THEN "ZeroDivisionError"
            ELSE IF value.n % self.n = 0 THEN "T" ELSE "F"
      [] self.k = "Enum" ->
            IF \E i \in 1..Len(self.options) : PyEq(value, self.options[i])
            THEN "T" ELSE "F"
      [] self.k = "MinLength" ->
            IF PyLen(value) < 0 THEN "TypeError"
            ELSE IF PyLen(value) >= self.length THEN "T" ELSE "F"
      [] self.k = "MaxLength" ->
            IF PyLen(value) < 0 THEN "TypeError"
            ELSE IF PyLen(value) <= self.length THEN "T" ELSE "F"
      [] self.k = "LessThan" -> PyLess(value, self.v)
      [] self.k = "Equal" -> IF PyEq(value, self.v) THEN "T" ELSE "F"
      [] self.k = "GreaterThan" -> PyLess(self.v, value)
      [] self.k = "Function" -> ApplyFunction(self.f, value)
      [] self.k = "Ref" -> Ref_validate(self, value, instance)
      [] OTHER -> "F"

\* results of Field._run_validators
RunOk == [r |-> "ok"]

RunRaise(errors) == [r |-> "ExodiaException", error |-> Aggregate(errors)]

RunCrash(e) == [r |-> "crash", exc |-> e]

RECURSIVE Validator_call(_, _, _, _)
RECURSIVE Stack_validate(_, _, _, _, _)
RECURSIVE _recursive_validate_schema(_, _, _, _, _)
RECURSIVE RunValidatorsFrom(_, _, _, _, _, _)

\* Validator.__call__ (Exodia overrides it)
Validator_call(self, value, field_name, instance) ==
    IF self.k = "Exodia"
    THEN _recursive_validate_schema(self, value, field_name, instance, 1)
    ELSE LET res == IF self.k = "Stack"
                    THEN Stack_validate(self, value, field_name, instance, 1)
                    ELSE SimpleValidate(self, value, instance)
         IN  CASE res = "T" -> Pass
               [] res = "F" -> fail(self, field_name)
               [] res = "no_instance" -> Raise(Leaf("no_instance", field_name))
               [] res = "does_not_exist" -> Raise(Leaf("does_not_exist", field_name))
               [] OTHER -> Crash(res)

\* Stack.validate from validator i on: False at the first ExodiaException
Stack_validate(self, value, field_name, instance, i) ==
    IF i > Len(self.validators) THEN "T"
    ELSE LET c == Validator_call(self.validators[i], value, field_name, instance)
         IN  CASE c.o = "pass" ->
                    Stack_validate(self, value, field_name, instance, i + 1)
               [] c.o = "raise" -> "F"
               [] OTHER -> c.exc

\* Field._run_validators from validator i on, with the errors collected so far
RunValidatorsFrom(_validators, value, field_name, instance, i, errors) ==
    IF i > Len(_validators)
    THEN (IF errors # << >> THEN RunRaise(errors) ELSE RunOk)
    ELSE LET c == Validator_call(_validators[i], value, field_name, instance)
         IN  CASE c.o = "pass" ->
                    RunValidatorsFrom(_validators, value, field_name, instance,
                                      i + 1, errors)
               [] c.o = "raise" ->
                    RunValidatorsFrom(_validators, value, field_name, instance,
                                      i + 1, Append(errors, c.err))
               [] OTHER -> RunCrash(c.exc)

_run_validators(_validators, value, field_name, instance) ==
    RunValidatorsFrom(_validators, value, field_name, instance, 1, << >>)

\* the branch "is another Exodia": self(key, item, instance) calls this same
\* validator with the key as its data, and a str has no get(); with an empty
\* key the data is falsy and the call repeats without end
ExodiaSelfCall(key) ==
    IF key # "" THEN Crash("AttributeError") ELSE Crash("RecursionError")

\* Exodia._recursive_validate_schema from entry i of the schema on
_recursive_validate_schema(self, data, field_name, instance, i) ==
    IF i > Len(self.schema) THEN Pass
    ELSE LET key == self.schema[i].key
             v == self.schema[i].v
         IN  IF Truthy(data) /\ data.t # "dict" THEN Crash("AttributeError")
             ELSE LET item == IF Truthy(data) /\ key \in DOMAIN data.d
                              THEN data.d[key] ELSE None
                  IN  IF "k" \in DOMAIN v
                      THEN ExodiaSelfCall(key)
                      ELSE LET r == _run_validators(v._validators, item,
                                        NameStr(field_name) \o "." \o key, instance)
                           IN  CASE r.r = "ok" ->
                                      _recursive_validate_schema(self, data,
                                          field_name, instance, i + 1)
                                 [] r.r = "ExodiaException" -> Raise(r.error)
                                 [] OTHER -> Crash(r.exc)

------------------------------------------------------------------------------
\* fields.py: a field is its class and its chain; exc is the exception its
\* last definition call raised ("none" when it returned)

of_type(cls) ==
    CASE cls = "String" -> <<"str">>
      [] cls = "Integer" -> <<"int">>
      [] cls = "List" -> <<"list">>
      [] cls = "Exodia" -> <<"Mapping">>
      [] cls = "DateTime" -> <<"str", "datetime">>
      [] cls = "Date" -> <<"str", "date">>

get_type_validator(self) == Type(of_type(self.cls))

\* the outcome of one step on a chain
Step(exc, _validators, popped) ==
    [exc |-> exc, _validators |-> _validators, popped |-> popped]

\* the first validator of the chain, from i on, whose == with v is not False
RECURSIVE FirstMatch(_, _, _)
FirstMatch(_validators, v, i) ==
    IF i > Len(_validators) THEN 0
    ELSE IF ValidatorEquals(_validators[i], v) # "F" THEN i
    ELSE FirstMatch(_validators, v, i + 1)

RemoveAt(seq, i) == SubSeq(seq, 1, i - 1) \o SubSeq(seq, i + 1, Len(seq))

\* _add_validator without the search for an equal validator
_add_validator_unchecked(_validators, v) ==
    Step("none", Append(_validators, v), NoValidator)

_add_validator(_validators, v) ==
    LET i == FirstMatch(_validators, v, 1)
    IN  IF i = 0 THEN Step("none", Append(_validators, v), NoValidator)
        ELSE IF ValidatorEquals(_validators[i], v) = "T"
             THEN Step("ExodiaException", _validators, NoValidator)
             ELSE Step(ValidatorEquals(_validators[i], v), _validators, NoValidator)

_pop_validator(_validators, v) ==
    LET i == FirstMatch(_validators, v, 1)
    IN  IF i = 0 THEN Step("none", _validators, NoValidator)
        ELSE IF ValidatorEquals(_validators[i], v) = "T"
             THEN Step("none", RemoveAt(_validators, i), _validators[i])
             ELSE Step(ValidatorEquals(_validators[i], v), _validators, NoValidator)

\* the statements of a method run in turn: each runs unless an earlier one raised
Start(_validators) == Step("none", _validators, NoValidator)

PopNext(s, v) ==
    IF s.exc # "none" THEN s ELSE _pop_validator(s._validators, v)

AddNext(s, v) ==
    IF s.exc # "none" THEN s ELSE _add_validator(s._validators, v)

\* optional, lines 99-102: merge the popped type validator with Type(None)
AddOptionalTypeNext(s) ==
    IF s.exc # "none" THEN s
    ELSE IF s.popped = NoValidator
         THEN Step("AttributeError", s._validators, NoValidator)
         ELSE _add_validator(s._validators, Type_merge(s.popped, Type(<<"None">>)))

\* required, lines 109-112: a new validator of the popped one's class
AddRequiredTypeNext(s, ts) ==
    IF s.exc # "none" THEN s
    ELSE IF s.popped = NoValidator
         THEN Step("AttributeError", s._validators, NoValidator)
         ELSE _add_validator(s._validators, Type(ts))

MkField(cls, s) == [cls |-> cls, _validators |-> s._validators, exc |-> s.exc]

\* Field.__init__ and reset
Field_init(cls) ==
    [cls |-> cls, _validators |-> <<get_type_validator([cls |-> cls])>>,
     exc |-> "none"]

\* Field.optional
optional(self) ==
    MkField(self.cls,
        AddOptionalTypeNext(
            PopNext(AddNext(PopNext(Start(self._validators), Required), Optional),
                    get_type_validator(self))))

\* Field.required
required(self) ==
    MkField(self.cls,
        AddRequiredTypeNext(
            PopNext(AddNext(PopNext(Start(self._validators), Optional), Required),
                    get_type_validator(self)),
            of_type(self.cls)))

\* the modifiers that add one validator
AddTo(self, v) == MkField(self.cls, _add_validator(self._validators, v))

function(self, f) == AddTo(self, Function(f, "message"))

enum(self, options) == AddTo(self, Enum(options))

ref(self, field, byName, expr) == AddTo(self, Ref(field, byName, expr))

\* String.__init__ (List inherits it): length None is 0, both are falsy
String_init(cls, length) ==
    IF length # 0 THEN AddTo(Field_init(cls), Length(length))
    ELSE Field_init(cls)

String_min(self, value) == AddTo(self, MinLength(value))

String_max(self, value) == AddTo(self, MaxLength(value))

not_empty(self) == AddTo(self, NotEmpty)

Integer_min(self, value) ==
    AddTo(self, Stack(<<GreaterThan(PyInt(value)), Equal(PyInt(value))>>))

Integer_max(self, value) ==
    AddTo(self, Stack(<<LessThan(PyInt(value)), Equal(PyInt(value))>>))

Integer_between(self, min, max) == AddTo(self, Between(min, max))

multiple_of(self, n) == AddTo(self, MultipleOf(n))

\* fields.Exodia.__init__
Exodia_init(schema) == AddTo(Field_init("Exodia"), ExodiaValidator(schema))

\* DateTime.before / after (Date overrides them with the same body)
before(self, d) == AddTo(self, LessThan(d))

after(self, d) == AddTo(self, GreaterThan(d))

prepare_for_validation(cls, v) ==
    CASE cls = "DateTime" -> datetime_fromisoformat(v)
      [] cls = "Date" -> date_fromisoformat(v)
      [] OTHER -> Ok(v)

to_repr(cls, v) ==
    CASE cls = "Date" -> date_fromisoformat(v)
      [] OTHER -> Ok(v)

\* results of Field.validate
Returned(v) == [r |-> "ok", ret |-> v]

\* Field.validate
validate(self, value) ==
    LET p == prepare_for_validation(self.cls, value)
    IN  IF p.o = "crash" THEN RunCrash(p.exc)
        ELSE LET run == _run_validators(self._validators, p.ret, NoName, NoInstance)
             IN  IF run.r # "ok" THEN run
                 ELSE LET y == to_repr(self.cls, value)
                      IN  IF y.o = "crash" THEN RunCrash(y.exc)
                          ELSE Returned(y.ret)

\* Field.__set__ on an instance whose class declares names and whose
\* __dict__ is d: the outcome and the __dict__ afterwards
SetResult(r, d) == [r |-> r, d |-> d]

Field_set(self, name, names, d, value) ==
    LET p == prepare_for_validation(self.cls, value)
    IN  IF p.o = "crash" THEN SetResult(RunCrash(p.exc), d)
        ELSE LET run == _run_validators(self._validators, p.ret, name,
                                        Instance(names, d))
             IN  IF run.r # "ok" THEN SetResult(run, d)
                 ELSE LET y == to_repr(self.cls, value)
                      IN  IF y.o = "crash" THEN SetResult(RunCrash(y.exc), d)
                          ELSE SetResult(RunOk,
                                   [n \in DOMAIN d \cup {name} |->
                                       IF n = name THEN y.ret ELSE d[n]])

------------------------------------------------------------------------------
\* the schemas and classes of the tests

\* conftest.py TestClass.obj
ObjSchema ==
    << [key |-> "name", v |-> required(Field_init("String"))],
       [key |-> "age", v |-> optional(Field_init("Integer"))] >>

\* conftest.py TestClass.nested_obj: the nested entry is an Exodia field
NestedSchema ==
    << [key |-> "nested",
        v |-> Exodia_init(
                << [key |-> "random", v |-> required(Field_init("String"))],
                   [key |-> "age", v |-> required(Field_init("Integer"))] >>)] >>

\* a schema whose entry is an Exodia validator (validators.py line 288)
RawNestedSchema ==
    << [key |-> "inner",
        v |-> ExodiaValidator(
                << [key |-> "name", v |-> required(Field_init("String"))] >>)] >>

Schemas == {ObjSchema, NestedSchema, RawNestedSchema}

\* the classes: Base itself, Klass of test_instance_creation.py, Person of
\* test_ref and test_ref_with_string_field, Person of test_validate_method,
\* the same Person with a message in its assert, and a Person whose referring
\* field is declared before the field it names
Classes ==
    {"Base", "Klass", "Person", "PersonByName", "PersonValidate",
     "PersonValidateMessage", "PersonRefFirst"}

\* test_instance_creation.py: Klass
KlassFields ==
    << [name |-> "required_string", field |-> required(Field_init("String"))] >>

\* test_validation.py test_ref: Person, the ref given as a Field
PersonFields ==
    << [name |-> "age", field |-> required(Field_init("Integer"))],
       [name |-> "younger_brother_age",
        field |-> required(ref(Field_init("Integer"), "age", FALSE,
                               "other_gt_this"))] >>

\* test_validation.py test_ref_with_string_field: Person, the ref given by name
PersonByNameFields ==
    << [name |-> "age", field |-> required(Field_init("Integer"))],
       [name |-> "younger_brother",
        field |-> required(ref(Field_init("Integer"), "age", TRUE,
                               "other_gt_this"))] >>

\* test_validation.py test_validate_method: Person with a validate hook
PersonValidateFields ==
    << [name |-> "age", field |-> required(Field_init("Integer"))],
       [name |-> "younger_brother_age", field |-> required(Field_init("Integer"))] >>

\* Person of test_ref_with_string_field with its two declarations in the
\* other order: younger_brother is validated while age is not stored yet
PersonRefFirstFields ==
    << [name |-> "younger_brother",
        field |-> required(ref(Field_init("Integer"), "age", TRUE,
                               "other_gt_this"))],
       [name |-> "age", field |-> required(Field_init("Integer"))] >>

\* conftest.py: TestClass, which is no subclass of Base
TestClassFields ==
    << [name |-> "first_name", field |-> required(Field_init("String"))],
       [name |-> "last_name", field |-> optional(Field_init("String"))],
       [name |-> "size",
        field |-> enum(required(Field_init("String")),
                       <<PyStr(S_BIG), PyStr(S_SMALL)>>)],
       [name |-> "obj", field |-> required(Exodia_init(ObjSchema))],
       [name |-> "nested_obj", field |-> Exodia_init(NestedSchema)] >>

\* Base._get_valid_fields: the Field attributes of the class, in class order
_get_valid_fields(cls) ==
    CASE cls = "Klass" -> KlassFields
      [] cls = "Person" -> PersonFields
      [] cls = "PersonByName" -> PersonByNameFields
      [] cls \in {"PersonValidate", "PersonValidateMessage"} -> PersonValidateFields
      [] cls = "PersonRefFirst" -> PersonRefFirstFields
      [] OTHER -> << >>

FieldNames(cls) ==
    {_get_valid_fields(cls)[i].name : i \in 1..Len(_get_valid_fields(cls))}

\* kwargs.get(key)
KwGet(kwargs, key) ==
    IF \E i \in 1..Len(kwargs) : kwargs[i].key = key
    THEN kwargs[CHOOSE i \in 1..Len(kwargs) : kwargs[i].key = key].value
    ELSE None

\* Base.validate and its override in test_validate_method:
\* "ok", "AssertionError" (raised without a message), "AssertionError(message)"
\* (the same assert given a message) or another exception
Base_validate(cls, attrs) ==
    IF cls \in {"PersonValidate", "PersonValidateMessage"}
    THEN LET c == PyLess(attrs["younger_brother_age"], attrs["age"])
         IN  CASE c = "T" -> "ok"
               [] c = "F" /\ cls = "PersonValidate" -> "AssertionError"
               [] c = "F" -> "AssertionError(message)"
               [] OTHER -> c
    ELSE "ok"

\* ExodiaException(*e.args) of an AssertionError that carries one message
HookError == Leaf("AssertionError(message)", NoName)

\* the outcome of a construction and the __dict__ it leaves
Built(r, d) == [r |-> r, d |-> d]

\* lines 30-36: one "unexpected attribute" error per unknown name
RECURSIVE UnknownErrors(_, _, _)
UnknownErrors(cls, kwargs, i) ==
    IF i > Len(kwargs) THEN << >>
    ELSE (IF kwargs[i].key \notin FieldNames(cls)
          THEN <<Leaf("unexpected_attribute", kwargs[i].key)>> ELSE << >>)
         \o UnknownErrors(cls, kwargs, i + 1)

\* lines 48-56: the hook, then the aggregate
FinishValidate(cls, kwargs, d, errors) ==
    LET valid_attrs == [n \in FieldNames(cls) |-> KwGet(kwargs, n)]
        h == Base_validate(cls, valid_attrs)
    IN  CASE h = "ok" ->
               IF errors # << >> THEN Built(RunRaise(errors), d)
               ELSE Built(RunOk, d)
          \* ExodiaException(*e.args) with no args
          [] h = "AssertionError" -> Built(RunCrash("TypeError"), d)
          [] h = "AssertionError(message)" ->
               Built(RunRaise(Append(errors, HookError)), d)
          [] OTHER -> Built(RunCrash(h), d)

RECURSIVE ValidateFieldsFrom(_, _, _, _, _)

\* line 46: setattr(self, key, value) went through Field.__set__ with outcome
\* set; what it raises leaves _validate_kwargs
AfterSetattr(cls, kwargs, i, d, errors, set) ==
    IF set.r.r # "ok" THEN Built(set.r, d)
    ELSE ValidateFieldsFrom(cls, kwargs, i + 1, set.d, errors)

\* lines 41-46: validate_field ended with vf; an ExodiaException is collected
AfterValidateField(cls, kwargs, i, d, errors, entry, vf) ==
    IF vf.r = "crash" THEN Built(vf, d)
    ELSE AfterSetattr(cls, kwargs, i, d,
             IF vf.r = "ExodiaException" THEN Append(errors, vf.error) ELSE errors,
             Field_set(entry.field, entry.name, FieldNames(cls), d,
                       KwGet(kwargs, entry.name)))

\* lines 38-46: validate_field, then setattr, for field i on
ValidateFieldsFrom(cls, kwargs, i, d, errors) ==
    IF i > Len(_get_valid_fields(cls))
    THEN FinishValidate(cls, kwargs, d, errors)
    ELSE AfterValidateField(cls, kwargs, i, d, errors, _get_valid_fields(cls)[i],
             _run_validators(_get_valid_fields(cls)[i].field._validators,
                             KwGet(kwargs, _get_valid_fields(cls)[i].name),
                             _get_valid_fields(cls)[i].name,
                             Instance(FieldNames(cls), d)))

\* Base.__init__ / Base._validate_kwargs
_validate_kwargs(cls, kwargs) ==
    ValidateFieldsFrom(cls, kwargs, 1, EmptyMap, UnknownErrors(cls, kwargs, 1))

------------------------------------------------------------------------------
\* the state

VARIABLES
    field,      \* the field being defined: [cls, _validators, exc]
    calls,      \* the definition calls made on it
    last,       \* the last call on the field: [op, value, out]
    obj,        \* the last instance constructed: [cls, d] with d its __dict__
    kwargs,     \* the named values it was constructed with
    outcome     \* the outcome of that construction

vars == <<field, calls, last, obj, kwargs, outcome>>

fieldVars == <<field, calls, last>>

baseVars == <<obj, kwargs, outcome>>

\* the values given to Field.validate
Values ==
    { None, PyInt(2), PyInt(5),
      PyStr(S_empty), PyStr(S_A), PyStr(S_BIG),
      PyStr(S_1970), PyStr(S_feb30), PyStr(S_1970T),
      PyList(<< >>), PyList(<<PyInt(1), PyInt(2)>>),
      PyDate(1970, 1, 1),
      Dict(EmptyMap),
      Dict([name |-> PyStr(S_x), age |-> PyInt(5)]),
      Dict([name |-> PyStr(S_x)]),
      Dict([age |-> PyInt(5)]),
      Dict([nested |-> Dict([random |-> PyStr(S_x), age |-> PyInt(5)])]),
      Dict([nested |-> PyInt(5)]),
      Dict([inner |-> Dict([name |-> PyStr(S_x)])]) }

LenArgs == {1, 2}

IntArgs == {2, 5}

NewFields ==
    {String_init("String", n) : n \in {0, 2}}
        \cup {String_init("List", n) : n \in {0, 2}}
        \cup {Field_init("Integer"), Field_init("Date"), Field_init("DateTime")}
        \cup {Exodia_init(s) : s \in Schemas}

NoCall == [op |-> "init", value |-> None, out |-> [r |-> "none"]]

DefCall(op, f) == [op |-> op, value |-> None, out |-> [r |-> f.exc]]

InitBase ==
    /\ obj = [cls |-> "", d |-> EmptyMap]
    /\ kwargs = << >>
    /\ outcome = [r |-> "none"]

Init ==
    /\ field \in NewFields
    /\ calls = 0
    /\ last = NoCall
    /\ InitBase

\* a definition call op that leaves the field as f
Define(op, f) ==
    /\ calls < MaxCalls
    /\ calls' = calls + 1
    /\ field' = f
    /\ last' = DefCall(op, f)
    /\ UNCHANGED baseVars

CallOptional == Define("optional", optional(field))

CallRequired == Define("required", required(field))

CallEnum == Define("enum", enum(field, <<PyStr(S_BIG), PyStr(S_A)>>))

CallFunction == Define("function", function(field, "len_ge_2"))

CallRef == Define("ref", ref(field, "other", TRUE, "this_gt_other"))

CallMin ==
    \/ /\ field.cls \in {"String", "List"}
       /\ \E n \in LenArgs : Define("min", String_min(field, n))
    \/ /\ field.cls = "Integer"
       /\ \E n \in IntArgs : Define("min", Integer_min(field, n))

CallMax ==
    \/ /\ field.cls \in {"String", "List"}
       /\ \E n \in LenArgs : Define("max", String_max(field, n))
    \/ /\ field.cls = "Integer"
       /\ \E n \in IntArgs : Define("max", Integer_max(field, n))

CallNotEmpty ==
    /\ field.cls \in {"String", "List"}
    /\ Define("not_empty", not_empty(field))

CallBetween ==
    /\ field.cls = "Integer"
    /\ Define("between", Integer_between(field, 2, 5))

CallMultipleOf ==
    /\ field.cls = "Integer"
    /\ \E n \in {0, 2} : Define("multiple_of", multiple_of(field, n))

CallBefore ==
    \/ /\ field.cls = "Date"
       /\ Define("before", before(field, PyDate(2000, 1, 1)))
    \/ /\ field.cls = "DateTime"
       /\ Define("before", before(field, PyDateTime(2000, 1, 1, 0, 0)))

CallAfter ==
    \/ /\ field.cls = "Date"
       /\ Define("after", after(field, PyDate(1900, 1, 1)))
    \/ /\ field.cls = "DateTime"
       /\ Define("after", after(field, PyDateTime(1900, 1, 1, 0, 0)))

\* field.validate(v)
CallValidate ==
    \E v \in Values :
        /\ last' = [op |-> "validate", value |-> v, out |-> validate(field, v)]
        /\ UNCHANGED <<field, calls>>
        /\ UNCHANGED baseVars

Next ==
    \/ CallOptional
    \/ CallRequired
    \/ CallEnum
    \/ CallFunction
    \/ CallRef
    \/ CallMin
    \/ CallMax
    \/ CallNotEmpty
    \/ CallBetween
    \/ CallMultipleOf
    \/ CallBefore
    \/ CallAfter
    \/ CallValidate

Spec == Init /\ [][Next]_vars

\* construction of instances
BaseValues == {None, PyInt(20), PyInt(25), PyInt(90), PyStr(S_A)}

KwargsOf(cls) ==
    LET keys == FieldNames(cls) \cup {"extra"}
        pairs == [key : keys, value : BaseValues]
    IN  {kw \in UNION {[1..n -> pairs] : n \in 0..MaxKwargs} :
            \A i, j \in 1..Len(kw) : kw[i].key = kw[j].key => i = j}

InitObjects ==
    /\ field = Field_init("String")
    /\ calls = 0
    /\ last = NoCall
    /\ InitBase

\* cls(**kw): each behaviour follows one instance
Construct ==
    /\ obj.cls = ""
    /\ \E cls \in Classes : \E kw \in KwargsOf(cls) :
        LET b == _validate_kwargs(cls, kw)
        IN  /\ obj' = [cls |-> cls, d |-> b.d]
            /\ kwargs' = kw
            /\ outcome' = b.r
            /\ UNCHANGED fieldVars

NextObjects == Construct

SpecObjects == InitObjects /\ [][NextObjects]_vars

\* attribute writes and reads on an instance

\* the Field descriptors of the class of an instance, in class order
ClassFields(cls) ==
    IF cls = "TestClass" THEN TestClassFields ELSE _get_valid_fields(cls)

ClassFieldNames(cls) ==
    {ClassFields(cls)[i].name : i \in 1..Len(ClassFields(cls))}

\* Field.__get__: instance.__dict__[self._name]
Field_get(name, d) ==
    IF name \in DOMAIN d THEN Returned(d[name]) ELSE RunCrash("KeyError")

\* the values written to attributes
WriteValues ==
    BaseValues
        \cup { PyStr(S_BIG), PyStr(S_MEDIUM),
               Dict([name |-> PyStr(S_x), age |-> PyInt(5)]),
               Dict([nested |-> Dict([random |-> PyStr(S_x), age |-> PyInt(5)])]) }

\* TestClass(): object.__init__ stores nothing and validates nothing
ConstructPlain ==
    /\ obj.cls = ""
    /\ obj' = [cls |-> "TestClass", d |-> EmptyMap]
    /\ kwargs' = << >>
    /\ outcome' = RunOk
    /\ UNCHANGED fieldVars

\* instance.name = v on the instance a construction returned
SetAttr ==
    /\ obj.cls # ""
    /\ outcome.r = "ok"
    /\ \E i \in 1..Len(ClassFields(obj.cls)) : \E v \in WriteValues :
          LET set == Field_set(ClassFields(obj.cls)[i].field,
                               ClassFields(obj.cls)[i].name,
                               ClassFieldNames(obj.cls), obj.d, v)
          IN  /\ obj' = [obj EXCEPT !.d = set.d]
              /\ last' = [op |-> "__set__", name |-> ClassFields(obj.cls)[i].name,
                          value |-> v, out |-> set.r]
              /\ UNCHANGED <<field, calls, kwargs, outcome>>

\* instance.name read on that instance
GetAttr ==
    /\ obj.cls # ""
    /\ outcome.r = "ok"
    /\ \E i \in 1..Len(ClassFields(obj.cls)) :
          /\ last' = [op |-> "__get__", name |-> ClassFields(obj.cls)[i].name,
                      value |-> None,
                      out |-> Field_get(ClassFields(obj.cls)[i].name, obj.d)]
          /\ UNCHANGED <<field, calls>>
          /\ UNCHANGED baseVars

NextWrites ==
    \/ Construct
    \/ ConstructPlain
    \/ SetAttr
    \/ GetAttr

SpecWrites == InitObjects /\ [][NextWrites]_vars

------------------------------------------------------------------------------
\* properties of the validator chain and of the field builder (Spec)

HasKind(f, kind) == \E i \in 1..Len(f._validators) : f._validators[i].k = kind

CountKind(f, kind) ==
    Cardinality({i \in 1..Len(f._validators) : f._validators[i].k = kind})

TypeOf(f) ==
    f._validators[CHOOSE i \in 1..Len(f._validators) : f._validators[i].k = "Type"]

\* the verdict of one validator of the chain on a value given without a name
Verdict(v, value) == Validator_call(v, value, NoName, NoInstance)

\* the validators of the chain that do not pass the value, in chain order
RECURSIVE FailingFrom(_, _, _)
FailingFrom(_validators, value, i) ==
    IF i > Len(_validators) THEN << >>
    ELSE (IF Verdict(_validators[i], value).o # "pass"
          THEN <<_validators[i]>> ELSE << >>)
         \o FailingFrom(_validators, value, i + 1)

\* C1: running the chain on a value on which exactly N validators fail raises
\* one aggregate ExodiaException with exactly N child errors, each the error
\* of the failing validator at that place of the chain, and raises nothing
\* when N = 0.
C1_AggregatesEveryFailure ==
    (last.op = "validate" /\ prepare_for_validation(field.cls, last.value).o = "ok")
    => LET value == prepare_for_validation(field.cls, last.value).ret
           failing == FailingFrom(field._validators, value, 1)
           run == _run_validators(field._validators, value, NoName, NoInstance)
       IN  IF failing = << >> THEN run.r = "ok"
           ELSE /\ run.r = "ExodiaException"
                /\ Len(run.error.errors) = Len(failing)
                /\ \A j \in 1..Len(failing) :
                      /\ Verdict(failing[j], value).o = "raise"
                      /\ run.error.errors[j] = Verdict(failing[j], value).err

\* C2: optional() on a field that is already optional, and required() on a
\* field that is already required, raises ExodiaException at definition time
\* and leaves the chain as it was.
C2_RepeatedStateFails ==
    [][ /\ (last'.op = "optional" /\ calls' = calls + 1 /\ HasKind(field, "Optional"))
            => (last'.out.r = "ExodiaException"
                /\ field'._validators = field._validators)
        /\ (last'.op = "required" /\ calls' = calls + 1 /\ HasKind(field, "Required"))
            => (last'.out.r = "ExodiaException"
                /\ field'._validators = field._validators) ]_vars

\* an optional field on which optional() was called again and raised
C2_Witness ==
    /\ last.op = "optional"
    /\ last.out.r = "ExodiaException"
    /\ HasKind(field, "Optional")
    /\ calls >= 2

\* C3: a required() or optional() call that does not repeat the field's
\* current state succeeds, and leaves exactly one type validator and exactly
\* one of Required/Optional: after required() the type validator accepts the
\* declared types only, after optional() it accepts None as well.
C3_LastCallWins ==
    [][ /\ (last'.op = "required" /\ calls' = calls + 1 /\ ~HasKind(field, "Required"))
            => /\ field'.exc = "none"
               /\ CountKind(field', "Type") = 1
               /\ CountKind(field', "Required") = 1
               /\ CountKind(field', "Optional") = 0
               /\ TypeOf(field').ts = of_type(field.cls)
        /\ (last'.op = "optional" /\ calls' = calls + 1 /\ ~HasKind(field, "Optional"))
            => /\ field'.exc = "none"
               /\ CountKind(field', "Type") = 1
               /\ CountKind(field', "Optional") = 1
               /\ CountKind(field', "Required") = 0
               /\ TypeOf(field').ts = of_type(field.cls) \o <<"NoneType">> ]_vars

\* C4: a required field rejects None with a validation error; the same field
\* made optional accepts None and accepts exactly the non-None values the
\* required field accepts.
C4_RequiredVersusOptional ==
    (last.op = "required" /\ field.exc = "none")
    => /\ validate(field, None).r = "ExodiaException"
       /\ optional(field).exc = "none"
       /\ validate(optional(field), None).r = "ok"
       /\ \A v \in Values \ {None} :
             (validate(optional(field), v).r = "ok") <=> (validate(field, v).r = "ok")

\* C5: when validate(x) returns y, validate(y) returns y as well.
C5_ValidateIdempotent ==
    (last.op = "validate" /\ last.out.r = "ok")
    => validate(field, last.out.ret) = Returned(last.out.ret)

\* what C6 expects of a schema: every declared name's entry (None when
\* missing) passes that name's chain, or, for a nested schema validator, is
\* accepted by the nested schema
RECURSIVE SchemaAccepts(_, _)
SchemaAccepts(schema, data) ==
    \A i \in 1..Len(schema) :
        LET key == schema[i].key
            v == schema[i].v
            item == IF data.t = "dict" /\ key \in DOMAIN data.d
                    THEN data.d[key] ELSE None
        IN  IF "k" \in DOMAIN v
            THEN SchemaAccepts(v.schema, item)
            ELSE _run_validators(v._validators, item, "None." \o key,
                                 NoInstance).r = "ok"

SchemaOf(f) ==
    f._validators[CHOOSE i \in 1..Len(f._validators) : f._validators[i].k = "Exodia"]

\* C6: the nested-schema validator passes a mapping exactly when every
\* declared name's entry passes, recursing through nested schemas.
C6_SchemaChecksEveryName ==
    (field.cls = "Exodia" /\ last.op = "validate" /\ last.value.t = "dict")
    => ((Verdict(SchemaOf(field), last.value).o = "pass")
            <=> SchemaAccepts(SchemaOf(field).schema, last.value))

------------------------------------------------------------------------------
\* properties of Base construction (SpecObjects)

\* the classes whose second field refers to age, by Field and by name
RefClasses == {"Person", "PersonByName"}

RefName(cls) == _get_valid_fields(cls)[2].name

HasKey(kw, key) == \E i \in 1..Len(kw) : kw[i].key = key

\* C7: when the referenced field age is stored and the referring field is
\* given an integer, the referring field passes (and is stored) exactly when
\* cmp(its value, the stored age) is true, for a ref by Field and by name; the
\* owner built with age=25 and 20 passes, with age=25 and 90 it fails with an
\* ExodiaException.
C7_RefComparesWithStored ==
    (obj.cls \in RefClasses /\ "age" \in DOMAIN obj.d
        /\ KwGet(kwargs, RefName(obj.cls)).t = "int")
    => LET b == KwGet(kwargs, RefName(obj.cls))
           cmp == ApplyExpr("other_gt_this", b, obj.d["age"]) = "T"
       IN  /\ (RefName(obj.cls) \in DOMAIN obj.d) <=> cmp
           /\ ~cmp => outcome.r = "ExodiaException"
           /\ (cmp /\ ~HasKey(kwargs, "extra")) => outcome.r = "ok"
           /\ (obj.d["age"] = PyInt(25) /\ b = PyInt(20) /\ Len(kwargs) = 2)
                 => outcome.r = "ok"
           /\ (obj.d["age"] = PyInt(25) /\ b = PyInt(90))
                 => outcome.r = "ExodiaException"

\* Person(age=25, younger_brother_age=20) was built
C7_Witness ==
    /\ obj.cls = "Person"
    /\ outcome.r = "ok"
    /\ obj.d = [age |-> PyInt(25), younger_brother_age |-> PyInt(20)]

\* the declared fields whose chain fails on the value supplied for them
FailedFields(cls, kw) ==
    {i \in 1..Len(_get_valid_fields(cls)) :
        _run_validators(_get_valid_fields(cls)[i].field._validators,
                        KwGet(kw, _get_valid_fields(cls)[i].name),
                        _get_valid_fields(cls)[i].name,
                        Instance(FieldNames(cls), obj.d)).r = "ExodiaException"}

Contains(errors, e) == \E j \in 1..Len(errors) : errors[j] = e

\* C8: a construction given a name that is no declared field raises one
\* aggregate that holds the unexpected-attribute error of that name and the
\* error of every declared field that failed.
C8_UnknownReportedWithFieldErrors ==
    (obj.cls # "" /\ \E i \in 1..Len(kwargs) : kwargs[i].key \notin FieldNames(obj.cls))
    => /\ outcome.r = "ExodiaException"
       /\ \A i \in 1..Len(kwargs) :
             kwargs[i].key \notin FieldNames(obj.cls)
                => Contains(outcome.error.errors,
                            Leaf("unexpected_attribute", kwargs[i].key))
       /\ \A i \in FailedFields(obj.cls, kwargs) :
             Contains(outcome.error.errors,
                 _run_validators(_get_valid_fields(obj.cls)[i].field._validators,
                                 KwGet(kwargs, _get_valid_fields(obj.cls)[i].name),
                                 _get_valid_fields(obj.cls)[i].name,
                                 Instance(FieldNames(obj.cls), obj.d)).error)

\* C9: a construction that fails has stored no value on the instance.
C9_AllOrNothing ==
    (obj.cls # "" /\ outcome.r # "ok") => DOMAIN obj.d = {}

\* C10: Base() fails with an ExodiaException.
C10_BaseNotInstantiable ==
    (obj.cls = "Base" /\ kwargs = << >>) => outcome.r = "ExodiaException"

------------------------------------------------------------------------------
\* properties of attribute writes (SpecWrites)

\* the declared field of that name
FieldNamed(cls, name) ==
    ClassFields(cls)[CHOOSE i \in 1..Len(ClassFields(cls)) :
                        ClassFields(cls)[i].name = name].field

\* the field's own chain passes the value on the instance as it is
ChainPasses(cls, name, d, value) ==
    _run_validators(FieldNamed(cls, name)._validators, value, name,
                    Instance(ClassFieldNames(cls), d)).r = "ok"

\* C11: an attribute write passes exactly when that field's chain passes the
\* value (the whole-object hook plays no part); a failing write raises an
\* ExodiaException and leaves every stored attribute as it was; a passing
\* write stores the canonical representation under that name only, and a
\* read then returns exactly the stored value.
C11_WriteValidatesThenStores ==
    [][ last'.op = "__set__"
        => /\ last'.out.r \in {"ok", "ExodiaException"}
           /\ (last'.out.r = "ok")
                 <=> ChainPasses(obj.cls, last'.name, obj.d, last'.value)
           /\ last'.out.r # "ok" => obj' = obj
           /\ last'.out.r = "ok"
                 => /\ obj'.d = [n \in DOMAIN obj.d \cup {last'.name} |->
                                   IF n = last'.name
                                   THEN to_repr(FieldNamed(obj.cls, last'.name).cls,
                                                last'.value).ret
                                   ELSE obj.d[n]]
                    /\ Field_get(last'.name, obj'.d)
                          = Returned(to_repr(FieldNamed(obj.cls, last'.name).cls,
                                             last'.value).ret) ]_vars

------------------------------------------------------------------------------
\* properties of the ref to a field not stored and of the hook (SpecObjects)

\* the aggregate holds the error itself or an aggregate that holds it
Holds(error, e) ==
    \E j \in 1..Len(error.errors) :
        \/ error.errors[j] = e
        \/ /\ error.errors[j].e = "list"
           /\ Contains(error.errors[j].errors, e)

\* C12: a construction that validates a referring field while the field it
\* names has never been stored on the instance fails with an ExodiaException
\* that holds the "does not exist" error of the referring field, and with no
\* other kind of exception.
C12_RefToUnsetFieldFails ==
    obj.cls = "PersonRefFirst"
    => /\ outcome.r = "ExodiaException"
       /\ Holds(outcome.error, Leaf("does_not_exist", "younger_brother"))

\* the classes that override the hook with an assert
HookClasses == {"PersonValidate", "PersonValidateMessage"}

\* the mapping the hook is given
HookAttrs(cls, kw) == [n \in FieldNames(cls) |-> KwGet(kw, n)]

\* C13: when every declared field passed (and so was stored) and the hook
\* raises an assertion failure, with or without a message, the construction
\* raises one aggregate ExodiaException, and no other exception reaches the
\* caller; the failure that carries a message is in the aggregate as an
\* ExodiaException.
C13_HookAssertionFolded ==
    (obj.cls \in HookClasses /\ DOMAIN obj.d = FieldNames(obj.cls)
        /\ Base_validate(obj.cls, HookAttrs(obj.cls, kwargs))
              \in {"AssertionError", "AssertionError(message)"})
    => /\ outcome.r = "ExodiaException"
       /\ outcome.error.e = "list"
       /\ obj.cls = "PersonValidateMessage"
             => Contains(outcome.error.errors, HookError)

------------------------------------------------------------------------------
\* properties of the type-specific modifiers (Spec)

\* the kind of a validator as the caller of the builder sees it: the Stack of
\* Integer.min and the Stack of Integer.max are kinds of their own
ModifierKind(v) == IF v.k = "Stack" THEN v.validators[1].k ELSE v.k

\* the length and numeric kinds that carry one bound
BoundKinds ==
    {"Length", "MinLength", "MaxLength", "MultipleOf", "GreaterThan", "LessThan"}

\* equal validators: the same kind and, for a kind with a bound, the same bound
SameValidator(a, b) ==
    /\ ModifierKind(a) = ModifierKind(b)
    /\ ModifierKind(a) \in BoundKinds => a = b

HoldsEqual(_validators, v) ==
    \E i \in 1..Len(_validators) : SameValidator(_validators[i], v)

\* the modifier calls a field offers: the field each call leaves and the
\* validator it is to add
ModifierCalls(f) ==
    {[f |-> enum(f, <<PyStr(S_BIG), PyStr(S_A)>>),
      v |-> Enum(<<PyStr(S_BIG), PyStr(S_A)>>)]}
    \cup (IF f.cls \in {"String", "List"}
          THEN {[f |-> String_min(f, n), v |-> MinLength(n)] : n \in LenArgs}
               \cup {[f |-> String_max(f, n), v |-> MaxLength(n)] : n \in LenArgs}
               \cup {[f |-> not_empty(f), v |-> NotEmpty]}
          ELSE {})
    \cup (IF f.cls = "Integer"
          THEN {[f |-> Integer_min(f, n),
                 v |-> Stack(<<GreaterThan(PyInt(n)), Equal(PyInt(n))>>)]
                   : n \in IntArgs}
               \cup {[f |-> Integer_max(f, n),
                      v |-> Stack(<<LessThan(PyInt(n)), Equal(PyInt(n))>>)]
                        : n \in IntArgs}
               \cup {[f |-> Integer_between(f, 2, 5), v |-> Between(2, 5)]}
               \cup {[f |-> multiple_of(f, n), v |-> MultipleOf(n)] : n \in {0, 2}}
          ELSE {})

\* C14: a modifier call (min, max, between, not_empty, enum, multiple_of) on
\* a field raises ExodiaException and leaves the chain as it was exactly when
\* the chain already holds an equal validator (the same kind and, for a
\* length or numeric kind with a bound, the same bound); otherwise it
\* returns with exactly that one validator added at the end of the chain.
C14_ModifierFailsOnlyOnEqual ==
    \A c \in ModifierCalls(field) :
        /\ c.f.exc \in {"none", "ExodiaException"}
        /\ (c.f.exc = "ExodiaException") <=> HoldsEqual(field._validators, c.v)
        /\ c.f.exc = "none" => c.f._validators = Append(field._validators, c.v)
        /\ c.f.exc # "none" => c.f._validators = field._validators

\* C15: validate on the field Integer().min(n) returns for exactly the
\* integers v >= n, and on the field Integer().max(n) for exactly the
\* integers v <= n.
C15_IntegerBoundsInclusive ==
    (last.op = "validate" /\ last.value.t = "int" /\ calls = 1)
    => \A n \in IntArgs :
          /\ field = Integer_min(Field_init("Integer"), n)
                => ((last.out.r = "ok") <=> (last.value.n >= n))
          /\ field = Integer_max(Field_init("Integer"), n)
                => ((last.out.r = "ok") <=> (last.value.n <= n))

====
